---- MODULE Spec2Model ----
(***************************************************************************)
(* Model of ite5570_daemon.py: the ITE5570 device channel, the            *)
(* configuration loader and the Daemon control loop, with signal          *)
(* delivery, device attach/detach and configuration edits as the          *)
(* environment.  The main thread is a sequence of positions (pc); the     *)
(* environment's actions interleave between them.  Spec is the whole       *)
(* daemon; RampSpec calls _step_breathe directly from every cursor,       *)
(* BreatheSpec runs the loop in breathing mode from every cursor with a   *)
(* healthy device, and CodecSpec calls report_range on sampled arguments. *)
(***************************************************************************)
EXTENDS Integers, Sequences, FiniteSets, TLC

\* ---------------------------------------------------------------- bounds
\* size of the process's descriptor table: os.open fails once it is full
MaxFds == 2
\* number of configuration-file modifications the environment performs
MaxEdits == 1
\* number of ramp steps the model follows from the cursor it starts at
MaxSteps == 8
\* number of direct _step_breathe calls made in RampSpec
MaxCalls == 105

\* ------------------------------------------------------- program constants
FallbackLampCount == 128
RampStep == 5
ByteMax == 255
U16Max == 65535

\* ------------------------------------------------------------ configuration
\* Config() : the dataclass defaults
DefaultConfig ==
    [mode |-> "static", color |-> <<255, 0, 0>>, intensity |-> 255, breathe_step_ms |-> 20]

\* dict.get(key, default) on the parsed JSON object
Get(data, key, default) == IF key \in DOMAIN data THEN data[key] ELSE default

\* the payloads the configuration file takes in the model: parsed JSON
\* objects (a record holds the keys that are present), and one payload
\* json.loads rejects
Unparsable == [syntax_error |-> TRUE]
FileContents ==
    { [mode |-> "static", color |-> <<0, 255, 0>>, intensity |-> 200],
      [mode |-> "breathe", color |-> <<255, 100, 0>>, breathe_step_ms |-> 10],
      [mode |-> "off"],
      [mode |-> "disco", color |-> <<1, 2, 3>>, intensity |-> 7],
      [mode |-> "static", intensity |-> 300],
      Unparsable }

NoConfig == [none |-> TRUE]

\* load_config: the Config built from the payload, or None (NoConfig) when
\* anything in the try block raises: json.loads on an unparsable payload, or
\* cfg.r / cfg.g / cfg.b in the log line on a color with fewer than 3 entries
load_config(data) ==
    IF data = Unparsable THEN NoConfig
    ELSE LET c == Get(data, "color", <<255, 0, 0>>)
         IN  IF Len(c) < 3 THEN NoConfig
             ELSE [mode            |-> Get(data, "mode", "static"),
                   color           |-> c,
                   intensity       |-> Get(data, "intensity", 255),
                   breathe_step_ms |-> Get(data, "breathe_step_ms", 20)]

\* ------------------------------------------------------------------ codec
InByte(x) == x \in 0..ByteMax
InU16(x) == x \in 0..U16Max

\* struct.pack("<BBHHBBBB", ...) raises struct.error unless every field fits
PackableRange(start, end, r, g, b, intensity) ==
    /\ InU16(start) /\ InU16(end)
    /\ InByte(r) /\ InByte(g) /\ InByte(b) /\ InByte(intensity)

\* report_range: the fields of the range-fill report
report_range(start, end, r, g, b, intensity) ==
    [kind |-> "range", start |-> start, end |-> end,
     r |-> r, g |-> g, b |-> b, intensity |-> intensity]

NoReport == [kind |-> "none"]

\* struct.pack("<BBHHBBBB", 0x45, 0x01, start, end, r, g, b, intensity):
\* the 10 bytes, each H field low byte first
PackRangeBigEndian(rep) ==
    << 69, 1,
       rep.start \div (ByteMax + 1), rep.start % (ByteMax + 1),
       rep.end \div (ByteMax + 1), rep.end % (ByteMax + 1),
       rep.r, rep.g, rep.b, rep.intensity >>

PackRange(rep) ==
    << 69, 1,
       rep.start % (ByteMax + 1), rep.start \div (ByteMax + 1),
       rep.end % (ByteMax + 1), rep.end \div (ByteMax + 1),
       rep.r, rep.g, rep.b, rep.intensity >>

\* ------------------------------------------------------------ breathing ramp
\* list(range(0, 256, 5)) + list(range(255, -1, -5)), 0-indexed
RampHalf == (ByteMax \div RampStep) + 1
RampLen == 2 * RampHalf
RampSawtooth(i) == RampStep * (i % RampHalf)
Ramp(i) == IF i < RampHalf THEN RampStep * i ELSE ByteMax - RampStep * (i - RampHalf)

\* int(x / 255): truncation toward zero
TruncDiv(x, d) == IF x >= 0 THEN x \div d ELSE -((-x) \div d)

\* the arguments _apply_static / _step_breathe pass to fill
Frame(r, g, b, intensity) == [r |-> r, g |-> g, b |-> b, intensity |-> intensity]
StaticFrame(c) == Frame(c.color[1], c.color[2], c.color[3], c.intensity)
BreatheFrame(c, intensity) ==
    Frame(TruncDiv(c.color[1] * intensity, ByteMax),
          TruncDiv(c.color[2] * intensity, ByteMax),
          TruncDiv(c.color[3] * intensity, ByteMax),
          intensity)
BlackFrame == Frame(0, 0, 0, 0)

\* ------------------------------------------------------------------ devices
\* the lighting controller of the machine: it answers the attribute report
\* 0x41 with its 16-bit lamp count or (old firmware) fails the query
Devices ==
    { [attr |-> TRUE, lamps |-> 0],
      [attr |-> TRUE, lamps |-> U16Max],
      [attr |-> FALSE, lamps |-> 0] }

VARIABLES
    pc,            \* position of the main thread
    connFrom,      \* caller of _connect: "ctor" or "fill"
    site,          \* "init", or the _apply_mode call in run: "initial" / "loop"
    op,            \* what fill was called for: "frame" or "off"
    fd,            \* ITE5570.fd, 0 for None
    lamp_count,    \* ITE5570.lamp_count
    openFds,       \* descriptors of the process that are open
    liveFds,       \* open descriptors that still reach the attached device
    device,        \* the controller of this machine
    attached,      \* its hidraw node exists
    file,          \* content of the configuration file
    fmtime,        \* its modification time
    cfg,           \* Daemon.cfg
    new_cfg,       \* local of _reload_if_needed, NoConfig outside it
    last_mtime,    \* Daemon._last_mtime
    reload_flag,   \* Daemon._reload_flag
    stop_flag,     \* Daemon._stop_flag
    handlers,      \* the signal handlers are installed
    breathe_pos,   \* Daemon._breathe_pos
    frame,         \* arguments of the fill call in progress
    exc,           \* the exception that ended the process, "" for none
    lastCtl,       \* last autonomous-toggle report transferred
    sent,          \* range-fill report the last fill call transferred
    log,           \* device operations of the fill / close call of this iteration
    hupPending,    \* a SIGHUP was handled; no load has started since and no
                   \* reload test has passed it by
    journal,       \* context that wrote the latest log record to stdout:
                   \* "none", "main" or "handler"
    start,         \* the cursor at which the modelled stretch of the ramp begins
    calls,         \* RampSpec: number of _step_breathe calls made
    buf            \* CodecSpec: bytes returned by report_range

vars == <<pc, connFrom, site, op, fd, lamp_count, openFds, liveFds, device,
          attached, file, fmtime, cfg, new_cfg, last_mtime, reload_flag,
          stop_flag, handlers, breathe_pos, frame, exc, lastCtl, sent, log,
          hupPending, journal, start, calls, buf>>

devVars == <<fd, lamp_count, openFds, liveFds>>
envVars == <<device, attached, file, fmtime>>
cfgVars == <<cfg, new_cfg, last_mtime, breathe_pos>>
flagVars == <<reload_flag, stop_flag, handlers>>
callVars == <<connFrom, site, op, frame>>
unitVars == <<start, calls, buf>>

Terminal == {"done", "crashed", "killed"}

\* an uncaught exception leaves run() and ends the process
Raise(e) == /\ pc' = "crashed" /\ exc' = e

\* ioctl on descriptor f reaches the device
Live(f) == f \in liveFds

Init ==
    /\ pc = "conn_find" /\ connFrom = "ctor" /\ site = "init" /\ op = "frame"
    /\ fd = 0 /\ lamp_count = FallbackLampCount
    /\ openFds = {} /\ liveFds = {}
    /\ device \in Devices /\ attached \in BOOLEAN
    /\ file \in FileContents /\ fmtime = 1
    /\ cfg = DefaultConfig /\ new_cfg = NoConfig /\ last_mtime = 0
    /\ reload_flag = FALSE /\ stop_flag = FALSE /\ handlers = FALSE
    /\ breathe_pos = 0 /\ frame = BlackFrame /\ exc = ""
    /\ lastCtl = "none" /\ sent = NoReport /\ log = <<>>
    /\ hupPending = FALSE /\ journal = "none"
    /\ start = 0 /\ calls = 0 /\ buf = <<>>

\* lowest descriptor number not in use, as the kernel hands them out
FreeFd == CHOOSE f \in 1..MaxFds : f \notin openFds /\ \A g \in 1..(f - 1) : g \in openFds
FdAvailable == Cardinality(openFds) < MaxFds

\* ------------------------------------------------------- ITE5570._connect
\* find_hidraw: a path is returned when a node with the target VID/PID
\* exists and could be opened for the identity query
ConnFind ==
    /\ pc = "conn_find"
    /\ pc' = IF attached /\ FdAvailable THEN "conn_open" ELSE "conn_sleep"
    /\ journal' = IF attached /\ FdAvailable THEN journal ELSE "main"
    /\ UNCHANGED <<devVars, envVars, cfgVars, flagVars, callVars, exc, lastCtl,
                   sent, log, hupPending, unitVars>>

\* self.fd = os.open(path): OSError when the node is gone again
ConnOpen ==
    /\ pc = "conn_open"
    /\ IF attached /\ FdAvailable
       THEN /\ fd' = FreeFd
            /\ openFds' = openFds \cup {FreeFd}
            /\ liveFds' = liveFds \cup {FreeFd}
            /\ lastCtl' = "none"
            /\ pc' = "conn_lamp"
       ELSE /\ pc' = "conn_sleep"
            /\ UNCHANGED <<fd, openFds, liveFds, lastCtl>>
    /\ journal' = IF attached /\ FdAvailable THEN journal ELSE "main"
    /\ UNCHANGED <<lamp_count, envVars, cfgVars, flagVars, callVars, exc, sent,
                   log, hupPending, unitVars>>

\* read_lamp_count: the 16-bit count of the attribute report, 128 on OSError
read_lamp_count(f) == IF Live(f) /\ device.attr THEN device.lamps ELSE FallbackLampCount

ConnLamp ==
    /\ pc = "conn_lamp"
    /\ lamp_count' = read_lamp_count(fd)
    /\ pc' = "conn_ctl"
    /\ journal' = "main"
    /\ UNCHANGED <<fd, openFds, liveFds, envVars, cfgVars, flagVars, callVars,
                   exc, lastCtl, sent, log, hupPending, unitVars>>

\* variant: a failed toggle report is ignored and _connect returns
ConnCtlIgnoresFailure ==
    /\ pc = "conn_ctl"
    /\ lastCtl' = IF Live(fd) THEN "host" ELSE lastCtl
    /\ pc' = IF connFrom = "ctor" THEN "init_load" ELSE "fill_send"
    /\ journal' = "main"
    /\ UNCHANGED <<devVars, envVars, cfgVars, flagVars, callVars, exc, sent,
                   log, hupPending, unitVars>>

\* set_feature(self.fd, report_control(autonomous=False)); on OSError the
\* retry loop goes on with self.fd still set and the descriptor still open
ConnCtl ==
    /\ pc = "conn_ctl"
    /\ IF Live(fd)
       THEN /\ lastCtl' = "host"
            /\ pc' = IF connFrom = "ctor" THEN "init_load" ELSE "fill_send"
       ELSE /\ pc' = "conn_sleep"
            /\ UNCHANGED lastCtl
    /\ journal' = "main"
    /\ UNCHANGED <<devVars, envVars, cfgVars, flagVars, callVars, exc, sent,
                   log, hupPending, unitVars>>

\* time.sleep(5), then the next iteration of while True
ConnSleep ==
    /\ pc = "conn_sleep"
    /\ pc' = "conn_find"
    /\ UNCHANGED <<devVars, envVars, cfgVars, flagVars, callVars, exc, lastCtl,
                   sent, log, hupPending, journal, unitVars>>

\* ------------------------------------------------------- Daemon.__init__
InitLoad ==
    /\ pc = "init_load"
    /\ cfg' = IF load_config(file) = NoConfig THEN DefaultConfig ELSE load_config(file)
    /\ pc' = "init_mtime"
    /\ journal' = "main"
    /\ UNCHANGED <<devVars, envVars, new_cfg, last_mtime, breathe_pos, flagVars,
                   callVars, exc, lastCtl, sent, log, hupPending, unitVars>>

InitMtime ==
    /\ pc = "init_mtime"
    /\ last_mtime' = fmtime
    /\ pc' = "init_signals"
    /\ UNCHANGED <<devVars, envVars, cfg, new_cfg, breathe_pos, flagVars,
                   callVars, exc, lastCtl, sent, log, hupPending, journal, unitVars>>

\* signal.signal(...) for SIGHUP, SIGTERM, SIGINT; then run() is entered
InitSignals ==
    /\ pc = "init_signals"
    /\ handlers' = TRUE
    /\ site' = "initial"
    /\ pc' = "run_initial"
    /\ journal' = "main"
    /\ UNCHANGED <<devVars, envVars, cfgVars, reload_flag, stop_flag, connFrom,
                   op, frame, exc, lastCtl, sent, log, hupPending, unitVars>>


\* ------------------------------------------------------------ Daemon.run
\* variant: the cursor is not reduced modulo the ramp length
StepBreatheNoWrap ==
    /\ breathe_pos' = breathe_pos + 1
    /\ frame' = BreatheFrame(cfg, Ramp(breathe_pos))
    /\ op' = "frame"

\* _step_breathe up to its call of fill
StepBreathe ==
    /\ LET pos == breathe_pos % RampLen
       IN  /\ breathe_pos' = pos + 1
           /\ frame' = BreatheFrame(cfg, Ramp(pos))
    /\ op' = "frame"

\* _apply_static / off up to their call of fill
ApplyStatic == /\ frame' = StaticFrame(cfg) /\ op' = "frame" /\ UNCHANGED breathe_pos
Off == /\ frame' = BlackFrame /\ op' = "off" /\ UNCHANGED breathe_pos

\* variant: an unknown mode switches the lighting off
ApplyModeUnknownIsOff ==
    CASE cfg.mode = "static"  -> ApplyStatic /\ UNCHANGED journal
      [] cfg.mode = "breathe" -> StepBreathe /\ UNCHANGED journal
      [] OTHER                -> Off /\ UNCHANGED journal

\* _apply_mode: an unknown mode is logged and applied as static
ApplyMode ==
    CASE cfg.mode = "static"  -> ApplyStatic /\ UNCHANGED journal
      [] cfg.mode = "breathe" -> StepBreathe /\ UNCHANGED journal
      [] cfg.mode = "off"     -> Off /\ UNCHANGED journal
      [] OTHER                -> ApplyStatic /\ journal' = "main"

\* run: self._apply_mode() before the loop
RunInitial ==
    /\ pc = "run_initial"
    /\ ApplyMode
    /\ sent' = NoReport
    /\ pc' = "fill_ensure"
    /\ UNCHANGED <<devVars, envVars, cfg, new_cfg, last_mtime, flagVars, connFrom,
                   site, exc, lastCtl, log, hupPending, unitVars>>

\* the time.sleep that ends a loop iteration raises ValueError on a
\* negative argument (breathe_step_ms / 1000)
SleepRaises == site = "loop" /\ cfg.mode = "breathe" /\ cfg.breathe_step_ms < 0

\* the sleep that ends the previous iteration, then
\* while not self._stop_flag: ... ; after the loop, self.dev.close()
LoopTest ==
    /\ pc = "loop_test"
    /\ IF SleepRaises
       THEN /\ Raise("ValueError") /\ UNCHANGED site
       ELSE /\ pc' = IF stop_flag THEN "close_ctl" ELSE "loop_check"
            /\ site' = "loop"
            /\ UNCHANGED exc
    /\ log' = <<>>
    /\ UNCHANGED <<devVars, envVars, cfgVars, flagVars, connFrom, op, frame,
                   lastCtl, sent, hupPending, journal, unitVars>>

\* the stored cursor runs 0, 1 .. RampLen, 1 .. RampLen, ...: the model
\* follows it for MaxSteps steps from start
InWindow == ((breathe_pos - start) % (RampLen + 1)) < MaxSteps

\* the branch of the loop body on the mode, up to the call of fill:
\* if self.cfg.mode == "breathe": _step_breathe() else: _apply_mode()
Dispatch ==
    IF cfg.mode = "breathe"
    THEN InWindow /\ StepBreathe /\ UNCHANGED journal
    ELSE ApplyMode

\* _check_config_changed, then the test of _reload_if_needed; with no
\* reload to do the iteration goes on to the dispatch
CheckConfigChanged ==
    /\ pc = "loop_check"
    /\ IF fmtime # last_mtime
       THEN /\ last_mtime' = fmtime /\ reload_flag' = TRUE
       ELSE UNCHANGED <<last_mtime, reload_flag>>
    /\ IF reload_flag'
       THEN /\ pc' = "reload_load"
            /\ journal' = IF fmtime # last_mtime THEN "main" ELSE journal
            /\ UNCHANGED <<breathe_pos, frame, op, sent, hupPending>>
       ELSE /\ pc' = "fill_ensure" /\ Dispatch /\ sent' = NoReport
            /\ hupPending' = FALSE
    /\ UNCHANGED <<devVars, envVars, cfg, new_cfg, stop_flag, handlers, connFrom,
                   site, exc, lastCtl, log, unitVars>>

\* variant: a failed load installs the defaults, as __init__ does with
\* load_config() or Config()
ReloadAssignOrDefault(loaded) ==
    IF loaded # NoConfig
    THEN /\ cfg' = loaded /\ breathe_pos' = 0
    ELSE /\ cfg' = DefaultConfig /\ breathe_pos' = 0

\* variant: the ramp restarts only when the mode changes
ReloadAssignOnModeChange(loaded) ==
    IF loaded # NoConfig
    THEN /\ cfg' = loaded
         /\ breathe_pos' = IF loaded.mode # cfg.mode THEN 0 ELSE breathe_pos
    ELSE UNCHANGED <<cfg, breathe_pos>>

\* if new_cfg: self.cfg = new_cfg; self._breathe_pos = 0
ReloadAssign(loaded) ==
    IF loaded # NoConfig
    THEN /\ cfg' = loaded /\ breathe_pos' = 0
    ELSE UNCHANGED <<cfg, breathe_pos>>

\* _reload_if_needed: new_cfg = load_config() and the assignment
ReloadLoad ==
    /\ pc = "reload_load"
    /\ new_cfg' = load_config(file)
    /\ ReloadAssign(new_cfg')
    /\ hupPending' = FALSE
    /\ journal' = "main"
    /\ pc' = "reload_clear"
    /\ UNCHANGED <<devVars, envVars, last_mtime, flagVars, callVars, exc,
                   lastCtl, sent, log, unitVars>>

\* _reload_if_needed: self._reload_flag = False; then the dispatch
ReloadClear ==
    /\ pc = "reload_clear"
    /\ reload_flag' = FALSE
    /\ new_cfg' = NoConfig
    /\ Dispatch
    /\ sent' = NoReport
    /\ pc' = "fill_ensure"
    /\ UNCHANGED <<devVars, envVars, cfg, last_mtime, stop_flag, handlers,
                   connFrom, site, exc, lastCtl, log, hupPending, unitVars>>

\* ------------------------------------------------- ITE5570 fill, off, close
\* the probe of _ensure_connected: get_feature(self.fd, 0x41, 23)
ProbeOk == Live(fd) /\ device.attr

\* variant: the handle is closed and reopened whatever the probe says
FillEnsureAlwaysReconnects ==
    /\ pc = "fill_ensure"
    /\ IF fd = 0
       THEN /\ log' = Append(log, "connect")
            /\ UNCHANGED <<fd, openFds, liveFds>>
       ELSE /\ openFds' = openFds \ {fd}
            /\ liveFds' = liveFds \ {fd}
            /\ fd' = 0
            /\ log' = log \o <<"probe_fail", "close", "connect">>
    /\ pc' = "conn_find" /\ connFrom' = "fill"
    /\ journal' = "main"
    /\ UNCHANGED <<lamp_count, envVars, cfgVars, flagVars, site, op, frame,
                   exc, lastCtl, sent, hupPending, unitVars>>

\* fill: self._ensure_connected()
FillEnsure ==
    /\ pc = "fill_ensure"
    /\ IF fd = 0
       THEN /\ pc' = "conn_find" /\ connFrom' = "fill"
            /\ log' = Append(log, "connect")
            /\ UNCHANGED <<fd, openFds, liveFds>>
       ELSE IF ProbeOk
       THEN /\ pc' = "fill_send"
            /\ log' = Append(log, "probe_ok")
            /\ UNCHANGED <<fd, openFds, liveFds, connFrom>>
       ELSE /\ openFds' = openFds \ {fd}
            /\ liveFds' = liveFds \ {fd}
            /\ fd' = 0
            /\ pc' = "conn_find" /\ connFrom' = "fill"
            /\ log' = log \o <<"probe_fail", "close", "connect">>
    /\ journal' = IF fd # 0 /\ ~ProbeOk THEN "main" ELSE journal
    /\ UNCHANGED <<lamp_count, envVars, cfgVars, flagVars, site, op, frame,
                   exc, lastCtl, sent, hupPending, unitVars>>

\* fill: set_feature(self.fd, report_range(0, self.lamp_count - 1, ...));
\* struct.error and OSError are not caught anywhere up to run()
FillSend ==
    /\ pc = "fill_send"
    /\ IF ~PackableRange(0, lamp_count - 1, frame.r, frame.g, frame.b, frame.intensity)
       THEN /\ Raise("struct.error") /\ UNCHANGED <<sent, log>>
       ELSE IF ~Live(fd)
       THEN /\ Raise("OSError") /\ UNCHANGED <<sent, log>>
       ELSE /\ sent' = report_range(0, lamp_count - 1, frame.r, frame.g, frame.b,
                                    frame.intensity)
            /\ log' = Append(log, "send")
            /\ pc' = IF op = "off" THEN "off_ctl" ELSE "loop_test"
            /\ UNCHANGED exc
    /\ frame' = BlackFrame
    /\ UNCHANGED <<devVars, envVars, cfgVars, flagVars, connFrom, site, op,
                   lastCtl, hupPending, journal, unitVars>>

\* off: set_feature(self.fd, report_control(autonomous=True))
OffCtl ==
    /\ pc = "off_ctl"
    /\ IF Live(fd)
       THEN /\ lastCtl' = "auto" /\ log' = Append(log, "ctl_auto")
            /\ pc' = "loop_test" /\ UNCHANGED exc
       ELSE /\ Raise("OSError") /\ UNCHANGED <<lastCtl, log>>
    /\ journal' = IF Live(fd) THEN "main" ELSE journal
    /\ UNCHANGED <<devVars, envVars, cfgVars, flagVars, callVars, sent, hupPending, unitVars>>

\* variant: os.close runs whether or not the toggle report went out
CloseCtlAlwaysCloses ==
    /\ pc = "close_ctl"
    /\ IF fd # 0 /\ Live(fd)
       THEN /\ lastCtl' = "auto" /\ log' = Append(log, "ctl_auto")
       ELSE UNCHANGED <<lastCtl, log>>
    /\ pc' = "close_fd"
    /\ UNCHANGED <<devVars, envVars, cfgVars, flagVars, callVars, exc, sent,
                   hupPending, journal, unitVars>>

\* close: set_feature(self.fd, report_control(autonomous=True)) inside the
\* try; on OSError os.close is skipped and self.fd = None
CloseCtl ==
    /\ pc = "close_ctl"
    /\ IF fd # 0 /\ Live(fd)
       THEN /\ lastCtl' = "auto" /\ log' = Append(log, "ctl_auto")
            /\ pc' = "close_fd" /\ UNCHANGED fd
       ELSE /\ fd' = 0 /\ pc' = "done" /\ UNCHANGED <<lastCtl, log>>
    /\ journal' = IF fd # 0 /\ Live(fd) THEN journal ELSE "main"
    /\ UNCHANGED <<lamp_count, openFds, liveFds, envVars, cfgVars, flagVars,
                   callVars, exc, sent, hupPending, unitVars>>

\* close: os.close(self.fd); self.fd = None; run() returns
CloseFd ==
    /\ pc = "close_fd"
    /\ openFds' = openFds \ {fd}
    /\ liveFds' = liveFds \ {fd}
    /\ fd' = 0
    /\ log' = Append(log, "close")
    /\ pc' = "done"
    /\ journal' = "main"
    /\ UNCHANGED <<lamp_count, envVars, cfgVars, flagVars, callVars, exc,
                   lastCtl, sent, hupPending, unitVars>>

\* ----------------------------------------------------------- environment
Running == pc \notin Terminal

\* SIGHUP: _on_sighup (a log record, then the flag) once the handlers are
\* installed, before that the default disposition ends the process
SigHup ==
    /\ Running
    /\ IF handlers
       THEN /\ journal' = "handler"
            /\ reload_flag' = TRUE /\ hupPending' = TRUE /\ UNCHANGED pc
       ELSE /\ pc' = "killed" /\ UNCHANGED <<reload_flag, hupPending, journal>>
    /\ UNCHANGED <<devVars, envVars, cfgVars, stop_flag, handlers, callVars,
                   exc, lastCtl, sent, log, unitVars>>

\* SIGTERM / SIGINT: _on_sigterm (a log record, then the flag) once the
\* handlers are installed
SigTerm ==
    /\ Running
    /\ IF handlers
       THEN /\ journal' = "handler" /\ stop_flag' = TRUE /\ UNCHANGED pc
       ELSE /\ pc' = "killed" /\ UNCHANGED <<stop_flag, journal>>
    /\ UNCHANGED <<devVars, envVars, cfgVars, reload_flag, handlers, callVars,
                   exc, lastCtl, sent, log, hupPending, unitVars>>

\* the device is detached (suspend, re-enumeration): every descriptor that
\* was opened on it is stale from now on
Unplug ==
    /\ Running
    /\ attached
    /\ attached' = FALSE
    /\ liveFds' = {}
    /\ UNCHANGED <<pc, fd, lamp_count, openFds, device, file, fmtime, cfgVars,
                   flagVars, callVars, exc, lastCtl, sent, log, hupPending, journal, unitVars>>

\* the device is back, under a new node
Plug ==
    /\ Running
    /\ ~attached
    /\ attached' = TRUE
    /\ UNCHANGED <<pc, devVars, device, file, fmtime, cfgVars, flagVars, callVars,
                   exc, lastCtl, sent, log, hupPending, journal, unitVars>>

\* the configuration file is rewritten
EditFile ==
    /\ Running
    /\ fmtime <= MaxEdits
    /\ file' \in FileContents
    /\ fmtime' = fmtime + 1
    /\ UNCHANGED <<pc, devVars, device, attached, cfgVars, flagVars, callVars,
                   exc, lastCtl, sent, log, hupPending, journal, unitVars>>

Main ==
    \/ ConnFind \/ ConnOpen \/ ConnLamp \/ ConnCtl \/ ConnSleep
    \/ InitLoad \/ InitMtime \/ InitSignals
    \/ RunInitial \/ LoopTest \/ CheckConfigChanged
    \/ ReloadLoad \/ ReloadClear
    \/ FillEnsure \/ FillSend \/ OffCtl \/ CloseCtl \/ CloseFd

Env == SigHup \/ SigTerm \/ Unplug \/ Plug \/ EditFile

Next == Main \/ Env

Spec == Init /\ [][Next]_vars

\* ------------------------------------------- _step_breathe called directly
BreatheConfigs ==
    { load_config([mode |-> "breathe", color |-> <<255, 100, 0>>, breathe_step_ms |-> 10]),
      [DefaultConfig EXCEPT !.mode = "breathe"] }

\* a daemon object whose device is connected and healthy, outside run()
Healthy ==
    /\ connFrom = "ctor" /\ site = "loop"
    /\ device = [attr |-> TRUE, lamps |-> U16Max] /\ attached = TRUE
    /\ fd = 1 /\ openFds = {1} /\ liveFds = {1} /\ lamp_count = U16Max
    /\ fmtime = 1 /\ last_mtime = 1 /\ new_cfg = NoConfig
    /\ reload_flag = FALSE /\ stop_flag = FALSE /\ handlers = TRUE
    /\ exc = "" /\ lastCtl = "host" /\ hupPending = FALSE /\ journal = "main"

RampInit ==
    /\ Healthy
    /\ pc = "step_breathe" /\ op = "frame"
    /\ file = Unparsable
    /\ cfg \in BreatheConfigs
    /\ breathe_pos \in 0..RampLen /\ start = breathe_pos /\ calls = 0
    /\ frame = BlackFrame /\ sent = NoReport /\ log = <<>> /\ buf = <<>>

\* one call of _step_breathe, up to its call of fill
StepCall ==
    /\ pc = "step_breathe"
    /\ calls < MaxCalls
    /\ StepBreathe
    /\ calls' = calls + 1
    /\ UNCHANGED <<pc, connFrom, site, devVars, envVars, cfg, new_cfg, last_mtime,
                   flagVars, exc, lastCtl, sent, log, hupPending, journal, start, buf>>

RampSpec == RampInit /\ [][StepCall]_vars

\* ---------------------------------------------- the loop in breathing mode
\* the daemon at the end of a loop iteration in breathing mode, with the
\* cursor anywhere on the ramp: the previous iteration sent the frame of the
\* entry before the cursor
BreatheInit ==
    /\ Healthy
    /\ pc = "loop_test" /\ op = "frame"
    /\ file = [mode |-> "breathe", color |-> <<255, 100, 0>>, breathe_step_ms |-> 10]
    /\ cfg = load_config(file)
    /\ breathe_pos \in 1..RampLen /\ start = breathe_pos /\ calls = 0
    /\ frame = BlackFrame
    /\ LET f == BreatheFrame(cfg, Ramp(breathe_pos - 1))
       IN  sent = report_range(0, lamp_count - 1, f.r, f.g, f.b, f.intensity)
    /\ log = <<"probe_ok", "send">> /\ buf = <<>>

BreatheNext ==
    \/ LoopTest \/ CheckConfigChanged \/ ReloadLoad \/ ReloadClear
    \/ FillEnsure \/ FillSend \/ CloseCtl \/ CloseFd
    \/ SigHup \/ SigTerm

BreatheSpec == BreatheInit /\ [][BreatheNext]_vars

\* ------------------------------------------------ report_range called directly
U16Samples == {0, 1, ByteMax, ByteMax + 1, 4660, U16Max, U16Max + 1}
ByteSamples == {0, 127, ByteMax, ByteMax + 1}

\* sent holds the arguments of the call
CodecInit ==
    /\ Healthy
    /\ pc = "report_range" /\ op = "frame"
    /\ file = Unparsable /\ cfg = DefaultConfig
    /\ breathe_pos = 0 /\ start = 0 /\ calls = 0
    /\ frame = BlackFrame /\ log = <<>> /\ buf = <<>>
    /\ sent \in { report_range(s, e, r, g, b, i) :
                     s \in U16Samples, e \in U16Samples, r \in ByteSamples,
                     g \in ByteSamples, b \in ByteSamples, i \in ByteSamples }

\* report_range(start, end, r, g, b, intensity): the bytes, or struct.error
PackCall ==
    /\ pc = "report_range"
    /\ IF PackableRange(sent.start, sent.end, sent.r, sent.g, sent.b, sent.intensity)
       THEN /\ buf' = PackRange(sent) /\ pc' = "returned" /\ UNCHANGED exc
       ELSE /\ Raise("struct.error") /\ UNCHANGED buf
    /\ UNCHANGED <<devVars, envVars, cfgVars, flagVars, callVars, lastCtl, sent,
                   log, hupPending, journal, start, calls>>

CodecSpec == CodecInit /\ [][PackCall]_vars

\* ================================================================ claims
ClosePhase == {"close_ctl", "close_fd", "done"}

\* the frame the dispatch hands to fill for configuration c at cursor pos
FrameOf(c, pos) ==
    IF c.mode = "breathe" THEN BreatheFrame(c, Ramp(pos % RampLen))
    ELSE IF c.mode = "off" THEN BlackFrame
    ELSE StaticFrame(c)

SentFrame == Frame(sent.r, sent.g, sent.b, sent.intensity)

C2_ReleasedOnEveryExit ==
    pc \in {"done", "crashed"} => lastCtl = "auto"

\* C3: once the loop has been entered no exception leaves run(), and the
\* loop is left only with stop_requested set.
C3_NoErrorLeavesLoop ==
    /\ ~(pc = "crashed" /\ site = "loop")
    /\ pc \in ClosePhase => stop_flag

\* C4: a reload whose load fails leaves active_config and ramp_cursor as
\* they were, the flag is then cleared, and the iteration goes on to hand
\* fill the frame of the previous configuration.
C4_FailedReloadKeepsState ==
    [][ /\ (pc = "reload_load" /\ pc' # pc /\ load_config(file) = NoConfig)
            => /\ cfg' = cfg /\ breathe_pos' = breathe_pos
               /\ new_cfg' = NoConfig /\ pc' = "reload_clear"
        /\ (pc = "reload_clear" /\ pc' # pc /\ new_cfg = NoConfig)
            => /\ ~reload_flag' /\ cfg' = cfg /\ pc' = "fill_ensure"
               /\ frame' = FrameOf(cfg, breathe_pos) ]_vars

C4_Witness ==
    /\ pc = "reload_clear" /\ new_cfg = NoConfig
    /\ cfg.mode = "breathe" /\ breathe_pos > 1

\* C5: the channels and the intensity of the active configuration are in
\* [0,255] in every reachable state, and so is every value handed to the
\* range-fill encoder.
C5_ChannelsInRange ==
    /\ \A i \in 1..3 : InByte(cfg.color[i])
    /\ InByte(cfg.intensity)
    /\ pc = "fill_send" =>
          InByte(frame.r) /\ InByte(frame.g) /\ InByte(frame.b) /\ InByte(frame.intensity)

\* C6: a loop iteration that starts with a handled SIGHUP that no load has
\* followed yet performs a load.
C6_SighupNeverLost ==
    [][(pc = "loop_check" /\ hupPending /\ pc' # pc) => pc' = "reload_load"]_vars

\* C7: a discovery-retry iteration that ends with stop_requested set is not
\* followed by another one.
C7_StopEndsRetry ==
    [][(pc = "conn_sleep" /\ stop_flag) => pc' # "conn_find"]_vars

\* C8: a fill call whose probe failed has, when it is over, closed the
\* stale handle, invoked connect once and then sent its frame once.
C8_ReconnectOnceThenSend ==
    (pc \in {"loop_test", "off_ctl", "crashed"} /\ log # <<>> /\ log[1] = "probe_fail")
        => /\ Len(log) >= 4
           /\ SubSeq(log, 1, 4) = <<"probe_fail", "close", "connect", "send">>

\* C9: a reload that succeeds leaves ramp_cursor at 0, and the step_breathe
\* that follows it emits the ramp entry at index 0.
C9_ReloadRestartsRamp ==
    [][ /\ (pc = "reload_load" /\ pc' # pc /\ load_config(file) # NoConfig)
            => breathe_pos' = 0 /\ cfg' = load_config(file)
        /\ (pc = "reload_clear" /\ pc' # pc /\ new_cfg # NoConfig /\ cfg.mode = "breathe")
            => /\ frame' = BreatheFrame(cfg, Ramp(0))
               /\ frame'.intensity = 0
               /\ breathe_pos' = 1 ]_vars

\* an identical breathing configuration was reloaded in the middle of the ramp
C9_Witness ==
    /\ pc = "reload_clear" /\ new_cfg = cfg /\ cfg.mode = "breathe"
    /\ breathe_pos = 0
    /\ sent.kind = "range"
    /\ \E k \in 7..(RampLen - 2) : SentFrame = BreatheFrame(cfg, Ramp(k))

\* C10: the range-fill of a fill call has start 0 and end lamp_count - 1,
\* the end field is a 16-bit value whatever count the device reported, and
\* the first frame of an initial static configuration is the configured one.
C10_FillCoversAllLamps ==
    /\ pc = "fill_send" => InU16(lamp_count - 1)
    /\ sent.kind = "range" => sent.start = 0 /\ sent.end = lamp_count - 1
    /\ (sent.kind = "range" /\ site = "initial" /\ cfg.mode = "static")
          => SentFrame = StaticFrame(cfg)

\* C11: with a handle recorded and the probe succeeding, _ensure_connected
\* only probes: the handle is neither closed nor reopened, no report is
\* sent, and the channel (handle, lamp_count, open descriptors) is the same
\* after the call as before it, so that a second call starts from the state
\* the first one started from.
C11_HealthyProbeChangesNothing ==
    [][ (pc = "fill_ensure" /\ pc' # pc /\ fd # 0 /\ ProbeOk)
            => /\ pc' = "fill_send"
               /\ log' = Append(log, "probe_ok")
               /\ devVars' = devVars
               /\ sent' = sent /\ lastCtl' = lastCtl /\ exc' = exc ]_vars

\* a loop iteration whose _ensure_connected found the handle healthy
C11_Witness ==
    /\ pc = "fill_send" /\ site = "loop" /\ log = <<"probe_ok">>
    /\ fd # 0 /\ fd \in liveFds /\ lastCtl = "host"

UnknownMode(c) == c.mode \notin {"static", "breathe", "off"}

\* C12: with a mode that is none of static, breathe and off, the initial
\* application and every loop iteration hand fill the frame of mode static
\* (the configured r, g, b and intensity), the range report transferred
\* carries that frame, the dispatch raises nothing and the iteration ends
\* back at the loop test.
C12_UnknownModeIsStatic ==
    [][ /\ (pc \in {"run_initial", "loop_check", "reload_clear"} /\ pc' # pc
             /\ UnknownMode(cfg))
            => /\ pc' \in {"fill_ensure", "reload_load"}
               /\ exc' = ""
               /\ pc' = "fill_ensure" => frame' = StaticFrame(cfg) /\ op' = "frame"
        /\ (pc = "fill_send" /\ pc' \notin {pc, "crashed"} /\ UnknownMode(cfg))
            => /\ pc' = "loop_test"
               /\ sent'.kind = "range"
               /\ SentFrame' = StaticFrame(cfg) ]_vars

C12_Witness ==
    /\ pc = "loop_test" /\ site = "loop" /\ cfg.mode = "disco"
    /\ sent.kind = "range" /\ SentFrame = Frame(1, 2, 3, 7)

\* C13, as stated: from any starting cursor, RampLen successive
\* _step_breathe calls leave the stored cursor at its starting value.
C13_ReturnsToInitialCursor ==
    calls = RampLen => breathe_pos = start

\* C13, amended: the ramp has 104 entries, 52 ascending and 52 descending;
\* 104 successive _step_breathe calls bring the stored cursor back to its
\* starting value modulo 104: exactly for a start in 1..104, and to 104 (the
\* same ramp entry) for the start 0; every emitted intensity is the ramp
\* entry of its call and lies in [0,255]; over one cycle from cursor 0 the
\* emitted intensities first never decrease and then never increase.
C13_RampIsClosedCycle ==
    [][ /\ RampHalf = 52 /\ RampLen = 104
        /\ calls' = RampLen =>
              /\ breathe_pos' % RampLen = start % RampLen
              /\ breathe_pos' = IF start = 0 THEN RampLen ELSE start
        /\ calls' = calls + 1 =>
              /\ frame'.intensity = Ramp((start + calls) % RampLen)
              /\ InByte(frame'.intensity)
        /\ (start = 0 /\ calls >= 1 /\ calls' = calls + 1 /\ calls' <= RampLen) =>
              IF calls < RampHalf
              THEN frame'.intensity >= frame.intensity
              ELSE frame'.intensity <= frame.intensity ]_vars

\* a full cycle was made from a cursor in the descending half
C13_Witness ==
    /\ pc = "step_breathe" /\ calls = RampLen
    /\ start = 77 /\ breathe_pos = 77 /\ frame.intensity = Ramp(76)

\* reading the buffer back at its fixed little-endian offsets
U16At(b, offset) == b[offset + 1] + (ByteMax + 1) * b[offset + 2]
Decode(b) == report_range(U16At(b, 2), U16At(b, 4), b[7], b[8], b[9], b[10])

\* C14: for arguments within the field domains report_range returns 10
\* bytes (opcode 0x45, apply-now 1, then the fields) from which reading
\* start at bytes 2-3, end at bytes 4-5 and r, g, b, intensity at bytes 6-9
\* gives back the arguments.
C14_RangeRoundTrip ==
    /\ (pc # "report_range"
           /\ PackableRange(sent.start, sent.end, sent.r, sent.g, sent.b, sent.intensity))
          => pc = "returned"
    /\ pc = "returned" =>
          /\ Len(buf) = 10
          /\ \A i \in 1..10 : InByte(buf[i])
          /\ buf[1] = 69 /\ buf[2] = 1
          /\ Decode(buf) = sent

C14_Witness ==
    /\ pc = "returned" /\ buf # <<>>
    /\ sent.start = 4660 /\ sent.end = U16Max /\ sent.r = 127 /\ sent.intensity = ByteMax

\* C15: when a fill call for a static or breathing frame has transferred its
\* range report, the last toggle report transferred on the handle was
\* autonomous=false.
C15_HostOwnsWhenFrameSent ==
    (pc = "loop_test" /\ op = "frame" /\ sent.kind = "range") => lastCtl = "host"

\* C16, as stated: when the lamp count is queried on a newly opened handle,
\* the autonomous=false toggle has already been transferred on it.
C16_ToggleThenLampQuery ==
    pc = "conn_lamp" => lastCtl = "host"

\* C16, amended: on every connect the first transfer on the newly opened
\* handle is the lamp-count query, the autonomous=false toggle follows it on
\* the same handle, _connect returns only after that toggle was
\* transferred, and no range-fill is sent on a handle before both.
C16_LampQueryThenToggle ==
    [][ /\ (pc = "conn_open" /\ pc' = "conn_lamp")
            => fd' \notin openFds /\ fd' \in openFds' /\ lastCtl' = "none"
        /\ (pc = "conn_lamp" /\ pc' \notin {pc, "killed"})
            => /\ pc' = "conn_ctl" /\ fd' = fd /\ lastCtl' = "none"
               /\ lamp_count' = read_lamp_count(fd)
        /\ (pc = "conn_ctl" /\ pc' \notin {pc, "killed", "conn_sleep"})
            => /\ pc' \in {"init_load", "fill_send"} /\ fd' = fd
               /\ lastCtl' = "host"
        /\ (pc' = "fill_send" /\ pc # pc')
            => pc \in {"conn_ctl", "fill_ensure"} /\ lastCtl' # "none"
        /\ (sent' # sent /\ sent'.kind = "range") => lastCtl # "none" ]_vars

\* a reconnect inside fill has returned and the frame is about to be sent
C16_Witness ==
    /\ pc = "fill_send" /\ connFrom = "fill" /\ lastCtl = "host"
    /\ log = <<"probe_fail", "close", "connect">>
    /\ fd \in liveFds /\ lamp_count = device.lamps

\* C17: each _step_breathe call leaves the cursor one past the ramp entry
\* it used (the stored cursor modulo the ramp length) and hands fill one frame
\* whose intensity is that entry and whose r, g, b are channel * entry / 255
\* truncated; the range report transferred carries that frame; the cursor
\* changes only in the one ramp step of an iteration or when a reload
\* resets it, and it is within [0, 104] in every state.
C17_OneRampStepPerIteration ==
    [][ /\ breathe_pos' \in 0..RampLen /\ RampLen = 104
        /\ (pc # "fill_ensure" /\ pc' = "fill_ensure" /\ cfg.mode = "breathe")
            => LET entry == Ramp(breathe_pos % RampLen)
               IN  /\ breathe_pos' = (breathe_pos % RampLen) + 1
                   /\ frame'.intensity = entry
                   /\ frame' = BreatheFrame(cfg, entry)
                   /\ \A ch \in {<<cfg.color[1], frame'.r>>, <<cfg.color[2], frame'.g>>,
                                    <<cfg.color[3], frame'.b>>} :
                          /\ ch[2] * ByteMax <= ch[1] * entry
                          /\ ch[1] * entry < (ch[2] + 1) * ByteMax
        /\ breathe_pos' # breathe_pos
            => \/ pc \in {"loop_check", "reload_clear"} /\ pc' = "fill_ensure"
               \/ pc = "reload_load" /\ breathe_pos' = 0
        /\ (pc = "fill_send" /\ pc' # pc /\ cfg.mode = "breathe")
            => /\ pc' = "loop_test"
               /\ log' = <<"probe_ok", "send">>
               /\ sent'.kind = "range" /\ SentFrame' = frame ]_vars

\* the cursor has passed the end of the ramp: the frame sent is entry 0
C17_Witness ==
    /\ pc = "loop_test" /\ cfg.mode = "breathe"
    /\ start = RampLen - 2 /\ breathe_pos = 1
    /\ sent.kind = "range" /\ SentFrame = BreatheFrame(cfg, Ramp(0))
    /\ log = <<"probe_ok", "send">>

\* C18: a step in which a signal handler sets its flag writes nothing to
\* any stream and leaves the configuration, the cursor, the last-seen
\* timestamp, the channel and the other flag as they were.
C18_HandlerSetsOnlyItsFlag ==
    [][ (handlers /\ pc' = pc
           /\ ((~reload_flag /\ reload_flag') \/ (~stop_flag /\ stop_flag')))
            => /\ journal' = journal
               /\ cfgVars' = cfgVars /\ devVars' = devVars
               /\ lastCtl' = lastCtl /\ sent' = sent /\ log' = log
               /\ (reload_flag' = reload_flag \/ stop_flag' = stop_flag) ]_vars

\* C19: in a state of run() in which no reload is pending (the timestamp
\* recorded is the file's, the flag is clear) and the file is valid,
\* active_config is the file's content: from such a state the daemon loads
\* the file again only after a further modification or signal.
C19_EditsAreLoaded ==
    (/\ site \in {"initial", "loop"} /\ pc \notin Terminal
     /\ fmtime = last_mtime /\ ~reload_flag
     /\ load_config(file) # NoConfig)
        => cfg = load_config(file)

\* C20: at most one descriptor opened by the channel is open, and none is
\* open while no handle is recorded.
C20_NoHandleLeftOpen ==
    /\ Cardinality(openFds) <= 1
    /\ fd = 0 => openFds = {}

====
